---- MODULE Spec2Model ----
(***************************************************************************)
(* Caching, refresh and proposal handling of the HealthSphere front end:   *)
(*   - AIConsultation: the sessionStorage plan cache, its mount effect and *)
(*     autoGeneratePlan (the Regenerate button);                           *)
(*   - AutonomousAgentPanel: runAnalysis, checkAgent and the auto-mode     *)
(*     interval effect;                                                    *)
(*   - SurgePredictionDashboard: fetchSurgeData and its 10-minute timer;   *)
(*   - HospitalDashboard: the inventory handlers;                         *)
(*   - HospitalFinderSimple: the facility search and its result cache;    *)
(*   - MultiCityComparison: fetchMultiCityData, the city Select, Refresh  *)
(*     and Try Again;                                                      *)
(*   - the decision engine behind the dashboards (risk scorer, surge       *)
(*     predictor, recommendation engine, multi-location aggregator), as    *)
(*     its specification describes it.                                     *)
(* Every component is a React function component: its state lives while it *)
(* is mounted, a promise started by an instance keeps running after that   *)
(* instance is unmounted, and a state setter called by a promise of an     *)
(* unmounted instance has no effect.                                       *)
(***************************************************************************)
EXTENDS Integers, FiniteSets, Sequences, TLC

\* ---------------------------------------------------------------- bounds
MaxTicks == 4
MaxMounts == 3
MaxReq == 3
MaxCalls == 4
MaxSearches == 2
MaxFinderTicks == 1
MaxLocations == 3

\* Comparison requests issued by MultiCityComparison.
MaxFetches == 4

\* ------------------------------------------------------------- constants
Second == 1000
CACHE_DURATION == 30 * 60 * Second
HOSPITAL_CACHE_DURATION == 30 * 60 * Second

VARIABLES
  \* AIConsultation
  now,              \* new Date().getTime(), in milliseconds
  ticks,            \* number of clock advances so far
  cache,            \* sessionStorage[CACHE_KEY]
  aiMounted,        \* an AIConsultation instance is mounted
  aiInst,           \* number of the current (or last) instance
  aiPlan,           \* useState plan (0 is null)
  aiLastGenerated,  \* useState lastGenerated (-1 is null)
  aiLoading,        \* useState loading
  aiError,          \* useState error
  aiInflight,       \* getCitizenAIPlan promises not yet settled
  aiReqCount,       \* number of getCitizenAIPlan calls made so far
  aiMountAge,       \* age of the cache entry read by the last mount
                    \* (-1: no entry, -2: unparsable entry)
  \* AutonomousAgentPanel
  agMounted,        \* an AutonomousAgentPanel instance is mounted
  agInst,           \* number of the current (or last) instance
  autoMode,         \* useState autoMode
  analysis,         \* useState analysis: input stamp of the stored result (0 is null)
  lastCheck,        \* useState lastCheck: completion number (0 is null)
  loading,          \* useState loading
  error,            \* useState error
  agTimers,         \* intervals set and not cleared
  agEffectTimer,    \* the interval held by the current effect closure (0: none)
  agTimerSeq,       \* number of setInterval calls so far
  agInflight,       \* fetch promises not yet settled
  agReqCount,       \* number of fetch calls so far
  agInputClock,     \* number of inputs read by the backend so far
  agDone,           \* number of settled fetches so far
  agLast,           \* what the last settled fetch was
  \* SurgePredictionDashboard
  sgMounted,        \* a SurgePredictionDashboard instance is mounted
  sgInst,           \* number of the current (or last) instance
  surgeData,        \* useState surgeData: number of the stored report (0 is null)
  sgLoading,        \* useState loading
  sgError,          \* useState error
  sgTimers,         \* intervals set and not cleared
  sgEffectTimer,    \* the interval held by the effect closure (0: none)
  sgTimerSeq,       \* number of setInterval calls so far
  sgInflight,       \* fetch promises not yet settled
  sgReqCount,       \* number of fetch calls so far
  \* HospitalDashboard, inventory
  userCoords,       \* useState userCoords is set
  selectedSection,  \* useState selectedSection
  inventory,        \* useState inventory: the rows shown, item -> status
  inventoryLoading, \* useState inventoryLoading
  hdTasks,          \* handler invocations suspended at an await
  hdCalls,          \* number of handler invocations so far
  hdUpdateCalls,    \* the updateInventoryStatus calls issued, in order
  hdLastAction,     \* the last user action or handler step
  srvStatus,        \* backend: item -> status
  srvRecalcs,       \* backend: number of recalculations done
  \* HospitalFinderSimple
  hfNow,            \* new Date().getTime(), in milliseconds
  hfTicks,          \* number of clock advances so far
  hfCache,          \* sessionStorage[HOSPITAL_CACHE_KEY]
  hfMounted,        \* a HospitalFinderSimple instance is mounted
  hfUserLocation,   \* useState userLocation: "none", "user" or "mumbai"
  hfFacilities,     \* useState facilities: how many, and from which request
  hfRadiusKm,       \* useState radiusKm, in tenths of a kilometre
  hfIsLoading,      \* useState isLoading
  hfError,          \* useState error ("" is null)
  hfHasSearched,    \* useState hasSearched
  hfLastSearched,   \* useState lastSearched (-1 is null)
  hfTasks,          \* handleSearchHospitals invocations suspended at an await
  hfSearches,       \* number of handleSearchHospitals invocations so far
  \* the decision engine
  enReading,        \* the reading of the last compute_surge call (<<>>: none)
  enBaselines,      \* the baseline table of that call
  enReport,         \* the SurgeReport it returned (<<>>: none)
  enRecs,           \* the list recommend returned for it (<<>>: none)
  enPanel,          \* what the agent panel shows of it (<<>>: nothing)
  \* the multi-location aggregator
  cmpNames,         \* the locations of the compare call in progress
  cmpFetched,       \* the state of the reading fetch of each location
  cmpResult,        \* the result of the call (<<>>: none yet)
  \* MultiCityComparison
  mcMounted,        \* the MultiCityComparison instance is mounted
  multiCityData,    \* useState multiCityData: the comparison and its request
  selectedCities,   \* useState selectedCities: one of the presets
  mcLoading,        \* useState loading
  mcError,          \* useState error
  mcInflight,       \* fetch promises not yet settled
  mcReqCount        \* number of fetches issued so far

consultVars == <<now, ticks, cache, aiMounted, aiInst, aiPlan, aiLastGenerated,
                 aiLoading, aiError, aiInflight, aiReqCount, aiMountAge>>

agentVars == <<agMounted, agInst, autoMode, analysis, lastCheck, loading, error,
               agTimers, agEffectTimer, agTimerSeq, agInflight, agReqCount,
               agInputClock, agDone, agLast>>

surgeVars == <<sgMounted, sgInst, surgeData, sgLoading, sgError, sgTimers,
               sgEffectTimer, sgTimerSeq, sgInflight, sgReqCount>>

inventoryVars == <<userCoords, selectedSection, inventory, inventoryLoading, hdTasks,
                   hdCalls, hdUpdateCalls, hdLastAction, srvStatus, srvRecalcs>>

finderVars == <<hfNow, hfTicks, hfCache, hfMounted, hfUserLocation,
                hfFacilities, hfRadiusKm, hfIsLoading, hfError, hfHasSearched,
                hfLastSearched, hfTasks, hfSearches>>

engineVars == <<enReading, enBaselines, enReport, enRecs, enPanel>>

compareVars == <<cmpNames, cmpFetched, cmpResult>>

multiVars == <<mcMounted, multiCityData, selectedCities, mcLoading, mcError,
               mcInflight, mcReqCount>>

vars == <<consultVars, agentVars, surgeVars, inventoryVars, finderVars,
          engineVars, compareVars, multiVars>>

otherThanConsult == <<agentVars, surgeVars, inventoryVars, finderVars,
  engineVars, compareVars, multiVars>>
otherThanAgent == <<consultVars, surgeVars, inventoryVars, finderVars,
  engineVars, compareVars, multiVars>>
otherThanSurge == <<consultVars, agentVars, inventoryVars, finderVars,
  engineVars, compareVars, multiVars>>
otherThanInventory == <<consultVars, agentVars, surgeVars, finderVars,
  engineVars, compareVars, multiVars>>
otherThanFinder == <<consultVars, agentVars, surgeVars, inventoryVars,
  engineVars, compareVars, multiVars>>
otherThanEngine == <<consultVars, agentVars, surgeVars, inventoryVars,
  finderVars, compareVars, multiVars>>
otherThanMulti == <<consultVars, agentVars, surgeVars, inventoryVars,
  finderVars, engineVars, compareVars>>
otherThanCompare == <<consultVars, agentVars, surgeVars, inventoryVars,
  finderVars, engineVars, multiVars>>

NoEntry == [present |-> FALSE, parsable |-> TRUE, plan |-> 0, timestamp |-> 0]

\* An entry JSON.parse (or the destructuring of its result) throws on.
Unparsable == [present |-> TRUE, parsable |-> FALSE, plan |-> 0, timestamp |-> 0]

\* ======================================================= AIConsultation

\* CACHE_DURATION written in seconds while the timestamps are milliseconds.
CacheValidSeconds(t, timestamp) == t - timestamp < 30 * 60

\* An entry whose age equals CACHE_DURATION counted as valid.
CacheValidInclusive(t, timestamp) == t - timestamp <= CACHE_DURATION

\* now - timestamp < CACHE_DURATION
CacheValid(t, timestamp) == t - timestamp < CACHE_DURATION

ConsultInit ==
  /\ now = 0
  /\ ticks = 0
  /\ cache = NoEntry
  /\ aiMounted = FALSE
  /\ aiInst = 0
  /\ aiPlan = 0
  /\ aiLastGenerated = -1
  /\ aiLoading = FALSE
  /\ aiError = ""
  /\ aiInflight = {}
  /\ aiReqCount = 0
  /\ aiMountAge = -1

\* The wall clock advances.
Tick ==
  /\ ticks < MaxTicks
  /\ \E d \in {Second, CACHE_DURATION - Second} : now' = now + d
  /\ ticks' = ticks + 1
  /\ UNCHANGED <<cache, aiMounted, aiInst, aiPlan, aiLastGenerated, aiLoading,
                 aiError, aiInflight, aiReqCount, aiMountAge>>
  /\ UNCHANGED otherThanConsult

\* autoGeneratePlan up to its await, called by instance inst:
\* setLoading(true); setError(""); getCitizenAIPlan(...)
StartGenerate(inst) ==
  /\ aiLoading' = TRUE
  /\ aiError' = ""
  /\ aiReqCount' = aiReqCount + 1
  /\ aiInflight' = aiInflight \cup {[id |-> aiReqCount + 1, inst |-> inst]}

\* What the mount effect reads: the age of the entry.
MountAge ==
  IF ~cache.present THEN -1
  ELSE IF ~cache.parsable THEN -2
  ELSE now - cache.timestamp

\* A catch that logs and leaves the unparsable entry in the storage.
EntryAfterCatchKept == cache

\* The storage after the catch of the mount effect:
\* sessionStorage.removeItem(CACHE_KEY)
EntryAfterCatch == NoEntry

\* The mount effect with the expired entry removed but no plan generated.
AIMountNoGenerate ==
  /\ ~aiMounted
  /\ aiInst < MaxMounts
  /\ aiMounted' = TRUE
  /\ aiInst' = aiInst + 1
  /\ aiMountAge' = MountAge
  /\ IF cache.present /\ cache.parsable /\ CacheValid(now, cache.timestamp)
       THEN /\ aiPlan' = cache.plan
            /\ aiLastGenerated' = cache.timestamp
            /\ UNCHANGED <<cache, aiLoading, aiError, aiInflight, aiReqCount>>
       ELSE IF cache.present
         THEN /\ cache' = NoEntry
              /\ UNCHANGED <<aiPlan, aiLastGenerated, aiLoading, aiError,
                             aiInflight, aiReqCount>>
         ELSE /\ aiReqCount < MaxReq
              /\ cache' = NoEntry
              /\ StartGenerate(aiInst + 1)
              /\ UNCHANGED <<aiPlan, aiLastGenerated>>
  /\ UNCHANGED <<now, ticks>>
  /\ UNCHANGED otherThanConsult

\* The mount effect of a new instance (useEffect(..., [])).
AIMount ==
  /\ ~aiMounted
  /\ aiInst < MaxMounts
  /\ aiMounted' = TRUE
  /\ aiInst' = aiInst + 1
  /\ aiMountAge' = MountAge
  /\ IF cache.present /\ cache.parsable /\ CacheValid(now, cache.timestamp)
       THEN /\ aiPlan' = cache.plan
            /\ aiLastGenerated' = cache.timestamp
            /\ UNCHANGED <<cache, aiLoading, aiError, aiInflight, aiReqCount>>
       ELSE /\ aiReqCount < MaxReq
            /\ cache' = IF cache.present /\ ~cache.parsable
                          THEN EntryAfterCatch
                          ELSE NoEntry
            /\ StartGenerate(aiInst + 1)
            /\ UNCHANGED <<aiPlan, aiLastGenerated>>
  /\ UNCHANGED <<now, ticks>>
  /\ UNCHANGED otherThanConsult

\* The dashboard shows another section: the instance and its state go away,
\* its promises stay.
AIUnmount ==
  /\ aiMounted
  /\ aiMounted' = FALSE
  /\ aiPlan' = 0
  /\ aiLastGenerated' = -1
  /\ aiLoading' = FALSE
  /\ aiError' = ""
  /\ UNCHANGED <<now, ticks, cache, aiInst, aiInflight, aiReqCount, aiMountAge>>
  /\ UNCHANGED otherThanConsult

\* The Regenerate Plan button: rendered when plan is set, disabled while
\* loading; onClick = autoGeneratePlan.
AIRegenerate ==
  /\ aiMounted
  /\ aiPlan # 0
  /\ ~aiLoading
  /\ aiReqCount < MaxReq
  /\ StartGenerate(aiInst)
  /\ UNCHANGED <<now, ticks, cache, aiMounted, aiInst, aiPlan, aiLastGenerated,
                 aiMountAge>>
  /\ UNCHANGED otherThanConsult

\* An entry written whatever the response was.
SettledEntryAlways(r, outcome) ==
  [present |-> TRUE, parsable |-> TRUE, plan |-> r.id, timestamp |-> now]

\* sessionStorage[CACHE_KEY] after the response of request r was handled:
\* setItem only inside if (response.data.success && response.data.data).
SettledEntry(r, outcome) ==
  IF outcome = "ok"
    THEN [present |-> TRUE, parsable |-> TRUE, plan |-> r.id, timestamp |-> now]
    ELSE cache

\* The promise of request r settles and the rest of autoGeneratePlan runs.
\* outcome: "ok" (success with data), "unsuccessful", "throw".
AISettle(r, outcome) ==
  LET live == aiMounted /\ r.inst = aiInst IN
  /\ r \in aiInflight
  /\ aiInflight' = aiInflight \ {r}
  /\ cache' = SettledEntry(r, outcome)
  /\ aiPlan' = IF live /\ outcome = "ok" THEN r.id ELSE aiPlan
  /\ aiLastGenerated' = IF live /\ outcome = "ok" THEN now ELSE aiLastGenerated
  /\ aiError' = IF live /\ outcome = "unsuccessful"
                  THEN "Failed to generate health plan. Please try again."
                ELSE IF live /\ outcome = "throw"
                  THEN "Failed to generate health plan"
                ELSE aiError
  /\ aiLoading' = IF live THEN FALSE ELSE aiLoading
  /\ UNCHANGED <<now, ticks, aiMounted, aiInst, aiReqCount, aiMountAge>>
  /\ UNCHANGED otherThanConsult

AISettleOk == \E r \in aiInflight : AISettle(r, "ok")
AISettleUnsuccessful == \E r \in aiInflight : AISettle(r, "unsuccessful")
AISettleThrow == \E r \in aiInflight : AISettle(r, "throw")

ConsultNext ==
  \/ Tick
  \/ AIMount
  \/ AIUnmount
  \/ AIRegenerate
  \/ AISettleOk
  \/ AISettleUnsuccessful
  \/ AISettleThrow


\* ================================================= AutonomousAgentPanel

AgentInit ==
  /\ agMounted = FALSE
  /\ agInst = 0
  /\ autoMode = TRUE
  /\ analysis = 0
  /\ lastCheck = 0
  /\ loading = FALSE
  /\ error = ""
  /\ agTimers = {}
  /\ agEffectTimer = 0
  /\ agTimerSeq = 0
  /\ agInflight = {}
  /\ agReqCount = 0
  /\ agInputClock = 0
  /\ agDone = 0
  /\ agLast = [kind |-> "none", outcome |-> "none", live |-> FALSE]

\* fetch(...) issued by instance inst; stamp 0: the backend has not read
\* its input yet.
AgentFetch(kind, inst) ==
  /\ agReqCount' = agReqCount + 1
  /\ agInflight' = agInflight \cup
       {[id |-> agReqCount + 1, kind |-> kind, inst |-> inst, stamp |-> 0]}

\* The body of useEffect(..., [autoMode]) with autoMode = mode, run by
\* instance inst: checkAgent(); if (autoMode) interval = setInterval(...)
AgentEffect(mode, inst, timers) ==
  /\ AgentFetch("check", inst)
  /\ IF mode
       THEN /\ agTimerSeq' = agTimerSeq + 1
            /\ agEffectTimer' = agTimerSeq + 1
            /\ agTimers' = timers \cup {agTimerSeq + 1}
       ELSE /\ agTimerSeq' = agTimerSeq
            /\ agEffectTimer' = 0
            /\ agTimers' = timers

\* A cleanup that forgets clearInterval.
AgentCleanupLeak == agTimers

\* The cleanup returned by the effect: if (interval) clearInterval(interval)
AgentCleanup == agTimers \ {agEffectTimer}

\* A new instance mounts: state initialised by useState, then the effect.
AgentMount ==
  /\ ~agMounted
  /\ agInst < MaxMounts
  /\ agReqCount < MaxReq
  /\ agMounted' = TRUE
  /\ agInst' = agInst + 1
  /\ autoMode' = TRUE
  /\ AgentEffect(TRUE, agInst + 1, agTimers)
  /\ UNCHANGED <<analysis, lastCheck, loading, error, agInputClock, agDone,
                 agLast>>
  /\ UNCHANGED otherThanAgent

\* The dashboard shows another section: cleanup, state discarded.
AgentUnmount ==
  /\ agMounted
  /\ agMounted' = FALSE
  /\ agTimers' = AgentCleanup
  /\ agEffectTimer' = 0
  /\ autoMode' = TRUE
  /\ analysis' = 0
  /\ lastCheck' = 0
  /\ loading' = FALSE
  /\ error' = ""
  /\ UNCHANGED <<agInst, agTimerSeq, agInflight, agReqCount, agInputClock,
                 agDone, agLast>>
  /\ UNCHANGED otherThanAgent

\* The Auto Mode switch: setAutoMode(!autoMode); the effect's cleanup runs,
\* then the effect runs again with the new value.
AgentToggleAuto ==
  /\ agMounted
  /\ agReqCount < MaxReq
  /\ autoMode' = ~autoMode
  /\ AgentEffect(~autoMode, agInst, AgentCleanup)
  /\ UNCHANGED <<agMounted, agInst, analysis, lastCheck, loading, error,
                 agInputClock, agDone, agLast>>
  /\ UNCHANGED otherThanAgent

\* An interval fires: checkAgent().
AgentTimerFire ==
  /\ agTimers # {}
  /\ agReqCount < MaxReq
  /\ AgentFetch("check", agInst)
  /\ UNCHANGED <<agMounted, agInst, autoMode, analysis, lastCheck, loading,
                 error, agTimers, agEffectTimer, agTimerSeq, agInputClock,
                 agDone, agLast>>
  /\ UNCHANGED otherThanAgent

\* runAnalysis without setError("") before its request.
AgentRunAnalysisKeepError ==
  /\ agMounted
  /\ ~loading
  /\ agReqCount < MaxReq
  /\ loading' = TRUE
  /\ AgentFetch("run", agInst)
  /\ UNCHANGED <<agMounted, agInst, autoMode, analysis, lastCheck, agTimers,
                 agEffectTimer, agTimerSeq, agInputClock, agDone, agLast,
                 error>>
  /\ UNCHANGED otherThanAgent

\* The Run Analysis button (disabled while loading): runAnalysis up to its
\* await.
AgentRunAnalysis ==
  /\ agMounted
  /\ ~loading
  /\ agReqCount < MaxReq
  /\ loading' = TRUE
  /\ error' = ""
  /\ AgentFetch("run", agInst)
  /\ UNCHANGED <<agMounted, agInst, autoMode, analysis, lastCheck, agTimers,
                 agEffectTimer, agTimerSeq, agInputClock, agDone, agLast>>
  /\ UNCHANGED otherThanAgent

\* The backend reads the current input for request r.
AgentServe ==
  \E r \in agInflight :
    /\ r.stamp = 0
    /\ agInputClock' = agInputClock + 1
    /\ agInflight' = (agInflight \ {r}) \cup {[r EXCEPT !.stamp = agInputClock + 1]}
    /\ UNCHANGED <<agMounted, agInst, autoMode, analysis, lastCheck, loading,
                   error, agTimers, agEffectTimer, agTimerSeq, agReqCount,
                   agDone, agLast>>
    /\ UNCHANGED otherThanAgent

\* A publish rule that keeps the newer of the stored and the arriving result.
PublishNewest(stored, stamp) == IF stamp > stored THEN stamp ELSE stored

\* setAnalysis(...) of a settled fetch: the arriving result replaces the
\* stored one.
Publish(stored, stamp) == stamp

\* checkAgent reporting its failures the way runAnalysis does.
SettleErrorAlways(kind, outcome, err) ==
  IF outcome = "unsuccessful" THEN "Failed to run analysis"
  ELSE IF outcome = "throw" THEN "Unable to connect to autonomous agent"
  ELSE err

\* The error state after a fetch of the given kind settled: runAnalysis
\* calls setError in its else branch and in its catch, checkAgent only logs.
SettleError(kind, outcome, err) ==
  IF kind = "run" /\ outcome = "unsuccessful" THEN "Failed to run analysis"
  ELSE IF kind = "run" /\ outcome = "throw"
    THEN "Unable to connect to autonomous agent"
  ELSE err

\* runAnalysis with setLoading(false) at the end of the success branch only.
SettleLoadingOnSuccess(kind, outcome, cur) ==
  IF kind = "run" /\ outcome = "ok" THEN FALSE ELSE cur

\* The loading state after a fetch of the given kind settled: the finally
\* block of runAnalysis calls setLoading(false); checkAgent never touches
\* loading.
SettleLoading(kind, outcome, cur) == IF kind = "run" THEN FALSE ELSE cur

\* The promise of request r settles and the rest of runAnalysis or
\* checkAgent runs. outcome: "ok" (data.success, and for checkAgent
\* data.result.analysis), "unsuccessful", "throw".
AgentSettle(r, outcome) ==
  LET live == agMounted /\ r.inst = agInst IN
  /\ r \in agInflight
  /\ outcome = "ok" => r.stamp # 0
  /\ agInflight' = agInflight \ {r}
  /\ agDone' = agDone + 1
  /\ agLast' = [kind |-> r.kind, outcome |-> outcome, live |-> live]
  /\ analysis' = IF live /\ outcome = "ok" THEN Publish(analysis, r.stamp)
                 ELSE analysis
  /\ lastCheck' = IF live /\ outcome = "ok" THEN agDone + 1 ELSE lastCheck
  /\ error' = IF live THEN SettleError(r.kind, outcome, error) ELSE error
  /\ loading' = IF live THEN SettleLoading(r.kind, outcome, loading) ELSE loading
  /\ UNCHANGED <<agMounted, agInst, autoMode, agTimers, agEffectTimer,
                 agTimerSeq, agReqCount, agInputClock>>
  /\ UNCHANGED otherThanAgent

AgentSettleOk == \E r \in agInflight : AgentSettle(r, "ok")
AgentSettleUnsuccessful == \E r \in agInflight : AgentSettle(r, "unsuccessful")
AgentSettleThrow == \E r \in agInflight : AgentSettle(r, "throw")

AgentNext ==
  \/ AgentMount
  \/ AgentUnmount
  \/ AgentToggleAuto
  \/ AgentTimerFire
  \/ AgentRunAnalysis
  \/ AgentServe
  \/ AgentSettleOk
  \/ AgentSettleUnsuccessful
  \/ AgentSettleThrow

\* ============================================= SurgePredictionDashboard

SurgeInit ==
  /\ sgMounted = FALSE
  /\ sgInst = 0
  /\ surgeData = 0
  /\ sgLoading = TRUE
  /\ sgError = ""
  /\ sgTimers = {}
  /\ sgEffectTimer = 0
  /\ sgTimerSeq = 0
  /\ sgInflight = {}
  /\ sgReqCount = 0

\* What the component renders: the loading line, the error card, nothing,
\* or the dashboard with surgeData.
SurgeView ==
  IF sgLoading THEN "loading"
  ELSE IF sgError # "" THEN "error"
  ELSE IF surgeData = 0 THEN "none"
  ELSE "data"

\* fetchSurgeData up to its await, called by instance inst.
FetchSurgeData(inst) ==
  /\ sgLoading' = TRUE
  /\ sgError' = ""
  /\ sgReqCount' = sgReqCount + 1
  /\ sgInflight' = sgInflight \cup {[id |-> sgReqCount + 1, inst |-> inst]}

\* A new instance mounts: useState values, then the effect:
\* fetchSurgeData(); setInterval(fetchSurgeData, 10 min)
SurgeMount ==
  /\ ~sgMounted
  /\ sgInst < MaxMounts
  /\ sgReqCount < MaxReq
  /\ sgMounted' = TRUE
  /\ sgInst' = sgInst + 1
  /\ FetchSurgeData(sgInst + 1)
  /\ sgTimerSeq' = sgTimerSeq + 1
  /\ sgEffectTimer' = sgTimerSeq + 1
  /\ sgTimers' = sgTimers \cup {sgTimerSeq + 1}
  /\ UNCHANGED surgeData
  /\ UNCHANGED otherThanSurge

\* The instance unmounts: clearInterval(interval), state discarded.
SurgeUnmount ==
  /\ sgMounted
  /\ sgMounted' = FALSE
  /\ sgTimers' = sgTimers \ {sgEffectTimer}
  /\ sgEffectTimer' = 0
  /\ surgeData' = 0
  /\ sgLoading' = TRUE
  /\ sgError' = ""
  /\ UNCHANGED <<sgInst, sgTimerSeq, sgInflight, sgReqCount>>
  /\ UNCHANGED otherThanSurge

\* The 10-minute interval fires: fetchSurgeData().
SurgeTimerFire ==
  /\ sgTimers # {}
  /\ sgReqCount < MaxReq
  /\ FetchSurgeData(sgInst)
  /\ UNCHANGED <<sgMounted, sgInst, surgeData, sgTimers, sgEffectTimer,
                 sgTimerSeq>>
  /\ UNCHANGED otherThanSurge

\* Refresh (dashboard view) or Try Again (error card): handleRefresh.
SurgeHandleRefresh ==
  /\ sgMounted
  /\ SurgeView \in {"data", "error"}
  /\ sgReqCount < MaxReq
  /\ FetchSurgeData(sgInst)
  /\ UNCHANGED <<sgMounted, sgInst, surgeData, sgTimers, sgEffectTimer,
                 sgTimerSeq>>
  /\ UNCHANGED otherThanSurge

\* The promise of request r settles and the rest of fetchSurgeData runs.
SurgeSettle(r, outcome) ==
  LET live == sgMounted /\ r.inst = sgInst IN
  /\ r \in sgInflight
  /\ sgInflight' = sgInflight \ {r}
  /\ surgeData' = IF live /\ outcome = "ok" THEN r.id ELSE surgeData
  /\ sgError' = IF live /\ outcome = "unsuccessful"
                  THEN "Failed to fetch surge data"
                ELSE IF live /\ outcome = "throw"
                  THEN "Unable to connect to surge prediction service"
                ELSE sgError
  /\ sgLoading' = IF live THEN FALSE ELSE sgLoading
  /\ UNCHANGED <<sgMounted, sgInst, sgTimers, sgEffectTimer, sgTimerSeq,
                 sgReqCount>>
  /\ UNCHANGED otherThanSurge

SurgeSettleOk == \E r \in sgInflight : SurgeSettle(r, "ok")
SurgeSettleUnsuccessful == \E r \in sgInflight : SurgeSettle(r, "unsuccessful")
SurgeSettleThrow == \E r \in sgInflight : SurgeSettle(r, "throw")

SurgeNext ==
  \/ SurgeMount
  \/ SurgeUnmount
  \/ SurgeTimerFire
  \/ SurgeHandleRefresh
  \/ SurgeSettleOk
  \/ SurgeSettleUnsuccessful
  \/ SurgeSettleThrow

\* ========================================== HospitalDashboard inventory

Items == {"item1", "item2"}
Statuses == {"approved", "review", "declined"}
Sections == {"overview", "inventory", "agent"}

\* inventory = [] before the first successful getInventory
NoRows == [i \in Items |-> "unloaded"]

InventoryInit ==
  /\ userCoords = FALSE
  /\ selectedSection = "overview"
  /\ inventory = NoRows
  /\ inventoryLoading = FALSE
  /\ hdTasks = {}
  /\ hdCalls = 0
  /\ hdUpdateCalls = <<>>
  /\ hdLastAction = "none"
  /\ srvStatus = [i \in Items |-> "pending"]
  /\ srvRecalcs = 0

NewTask(kind, phase, item, status) ==
  [id |-> hdCalls + 1, kind |-> kind, phase |-> phase, item |-> item,
   status |-> status]

\* The effect on [selectedSection, userCoords] with the values s and coords:
\* if (!userCoords) return; fetchSectionData(), which for "inventory" awaits
\* getInventory.
SectionEffect(s, coords) ==
  /\ hdCalls' = hdCalls + 1
  /\ hdTasks' = IF coords /\ s = "inventory"
                  THEN hdTasks \cup {NewTask("section", "get", "none", "none")}
                  ELSE hdTasks

\* The geolocation callback (or its fallback): setUserCoords(...).
SetUserCoords ==
  /\ ~userCoords
  /\ userCoords' = TRUE
  /\ SectionEffect(selectedSection, TRUE)
  /\ hdLastAction' = "setUserCoords"
  /\ UNCHANGED <<selectedSection, inventory, inventoryLoading, hdUpdateCalls,
                 srvStatus, srvRecalcs>>
  /\ UNCHANGED otherThanInventory

\* A sidebar button: setSelectedSection(s).
SelectSection ==
  \E s \in Sections \ {selectedSection} :
    /\ hdCalls < MaxCalls
    /\ selectedSection' = s
    /\ SectionEffect(s, userCoords)
    /\ hdLastAction' = "select"
    /\ UNCHANGED <<userCoords, inventory, inventoryLoading, hdUpdateCalls,
                   srvStatus, srvRecalcs>>
    /\ UNCHANGED otherThanInventory

\* handleRecalculateInventory that also approves every row it recalculates.
RecalculateCallsAutoApply ==
  hdUpdateCalls \o <<[item |-> "item1", status |-> "approved"]>>

\* The updateInventoryStatus calls after handleRecalculateInventory started:
\* it issues none.
RecalculateCalls == hdUpdateCalls

\* One of the three buttons of a row: handleInventoryStatusUpdate(item._id,
\* status) up to its first await (updateInventoryStatus).
ClickStatus ==
  \E i \in Items, st \in Statuses :
    /\ selectedSection = "inventory"
    /\ inventory[i] # "unloaded"
    /\ hdCalls < MaxCalls
    /\ hdCalls' = hdCalls + 1
    /\ hdTasks' = hdTasks \cup {NewTask("update", "put", i, st)}
    /\ hdUpdateCalls' = hdUpdateCalls \o <<[item |-> i, status |-> st]>>
    /\ hdLastAction' = "clickStatus"
    /\ UNCHANGED <<userCoords, selectedSection, inventory, inventoryLoading,
                   srvStatus, srvRecalcs>>
    /\ UNCHANGED otherThanInventory

\* Recalculate AI Recommendations (disabled while inventoryLoading):
\* handleRecalculateInventory up to its first await (recalculateInventory).
ClickRecalculate ==
  /\ selectedSection = "inventory"
  /\ ~inventoryLoading
  /\ hdCalls < MaxCalls
  /\ hdCalls' = hdCalls + 1
  /\ inventoryLoading' = TRUE
  /\ hdTasks' = hdTasks \cup {NewTask("recalc", "post", "none", "none")}
  /\ hdUpdateCalls' = RecalculateCalls
  /\ hdLastAction' = "clickRecalculate"
  /\ UNCHANGED <<userCoords, selectedSection, inventory, srvStatus, srvRecalcs>>
  /\ UNCHANGED otherThanInventory

\* The first await of an update or recalc handler resolves: the backend has
\* applied the call, and the handler goes on to await getInventory.
FirstAwaitResolves ==
  \E t \in hdTasks :
    /\ t.phase \in {"put", "post"}
    /\ hdTasks' = (hdTasks \ {t}) \cup {[t EXCEPT !.phase = "get"]}
    /\ srvStatus' = IF t.kind = "update"
                      THEN [srvStatus EXCEPT ![t.item] = t.status]
                      ELSE srvStatus
    /\ srvRecalcs' = IF t.kind = "recalc" THEN srvRecalcs + 1 ELSE srvRecalcs
    /\ hdLastAction' = "firstAwaitResolves"
    /\ UNCHANGED <<userCoords, selectedSection, inventory, inventoryLoading,
                   hdCalls, hdUpdateCalls>>
    /\ UNCHANGED otherThanInventory

\* An awaited call rejects: the handler's catch logs, and the finally of
\* handleRecalculateInventory resets inventoryLoading. The backend may have
\* applied the rejected call (applied) or not.
AwaitRejects ==
  \E t \in hdTasks, applied \in BOOLEAN :
    /\ hdTasks' = hdTasks \ {t}
    /\ inventoryLoading' = IF t.kind = "recalc" THEN FALSE ELSE inventoryLoading
    /\ srvStatus' = IF applied /\ t.kind = "update" /\ t.phase = "put"
                      THEN [srvStatus EXCEPT ![t.item] = t.status]
                      ELSE srvStatus
    /\ srvRecalcs' = IF applied /\ t.kind = "recalc" /\ t.phase = "post"
                       THEN srvRecalcs + 1
                       ELSE srvRecalcs
    /\ hdLastAction' = "awaitRejects"
    /\ UNCHANGED <<userCoords, selectedSection, inventory, hdCalls,
                   hdUpdateCalls>>
    /\ UNCHANGED otherThanInventory

\* getInventory resolves: if (invRes.data.success) setInventory(...)
GetInventoryResolves ==
  \E t \in hdTasks, success \in BOOLEAN :
    /\ t.phase = "get"
    /\ hdTasks' = hdTasks \ {t}
    /\ inventory' = IF success THEN srvStatus ELSE inventory
    /\ inventoryLoading' = IF t.kind = "recalc" THEN FALSE ELSE inventoryLoading
    /\ hdLastAction' = "getInventoryResolves"
    /\ UNCHANGED <<userCoords, selectedSection, hdCalls, hdUpdateCalls,
                   srvStatus, srvRecalcs>>
    /\ UNCHANGED otherThanInventory

InventoryNext ==
  \/ SetUserCoords
  \/ SelectSection
  \/ ClickStatus
  \/ ClickRecalculate
  \/ FirstAwaitResolves
  \/ AwaitRejects
  \/ GetInventoryResolves

\* ================================================= HospitalFinderSimple

\* Radii in tenths of a kilometre: radius_km=2.5 and radius_km=5.0
Radius25 == 25
Radius50 == 50

NoFacilities == [n |-> 0, req |-> 0]
NoData == [success |-> FALSE, n |-> 0, radius_km |-> 0, req |-> 0]
NoHfEntry == [present |-> FALSE, location |-> "none", facilities |-> NoFacilities,
              radiusKm |-> 0, timestamp |-> 0]

\* The bodies response.json() can give for a request of radius req: success
\* or not, facilities or none, radius_km present (echoing the request) or
\* absent (0).
Bodies(req) ==
  {[success |-> FALSE, n |-> 0, radius_km |-> 0, req |-> req]} \cup
  {[success |-> TRUE, n |-> n, radius_km |-> rk, req |-> req] :
     n \in {0, 2}, rk \in {0, req}}

\* The ways a request of radius req can settle: fetch or json rejects
\* ("throw"), !response.ok ("notok"), or a body ("json").
Responses(req) ==
  {[kind |-> k, body |-> NoData] : k \in {"throw", "notok"}} \cup
  {[kind |-> "json", body |-> b] : b \in Bodies(req)}

FinderInit ==
  /\ hfNow = 0
  /\ hfTicks = 0
  /\ hfCache = NoHfEntry
  /\ hfMounted = FALSE
  /\ hfUserLocation = "none"
  /\ hfFacilities = NoFacilities
  /\ hfRadiusKm = Radius25
  /\ hfIsLoading = FALSE
  /\ hfError = ""
  /\ hfHasSearched = FALSE
  /\ hfLastSearched = -1
  /\ hfTasks = {}
  /\ hfSearches = 0

\* The wall clock advances by the cache duration.
HFTick ==
  /\ hfTicks < MaxFinderTicks
  /\ hfNow' = hfNow + HOSPITAL_CACHE_DURATION
  /\ hfTicks' = hfTicks + 1
  /\ UNCHANGED <<hfCache, hfMounted, hfUserLocation, hfFacilities,
                 hfRadiusKm, hfIsLoading, hfError, hfHasSearched,
                 hfLastSearched, hfTasks, hfSearches>>
  /\ UNCHANGED otherThanFinder

\* The mount effect of a new instance: load a valid cache entry, remove an
\* expired one.
HFMount ==
  /\ ~hfMounted
  /\ hfMounted' = TRUE
  /\ IF hfCache.present /\ hfNow - hfCache.timestamp < HOSPITAL_CACHE_DURATION
       THEN /\ hfUserLocation' = hfCache.location
            /\ hfFacilities' = hfCache.facilities
            /\ hfRadiusKm' = hfCache.radiusKm
            /\ hfHasSearched' = TRUE
            /\ hfLastSearched' = hfCache.timestamp
            /\ UNCHANGED hfCache
       ELSE /\ hfCache' = NoHfEntry
            /\ UNCHANGED <<hfUserLocation, hfFacilities, hfRadiusKm,
                           hfHasSearched, hfLastSearched>>
  /\ UNCHANGED <<hfNow, hfTicks, hfIsLoading, hfError, hfTasks, hfSearches>>
  /\ UNCHANGED otherThanFinder

\* The dashboard shows another section: the instance and its state go away,
\* its promises stay, and their state setters no longer have an effect.
HFUnmount ==
  /\ hfMounted
  /\ hfMounted' = FALSE
  /\ hfTasks' = {[t EXCEPT !.live = FALSE] : t \in hfTasks}
  /\ hfUserLocation' = "none"
  /\ hfFacilities' = NoFacilities
  /\ hfRadiusKm' = Radius25
  /\ hfIsLoading' = FALSE
  /\ hfError' = ""
  /\ hfHasSearched' = FALSE
  /\ hfLastSearched' = -1
  /\ UNCHANGED <<hfNow, hfTicks, hfCache, hfSearches>>
  /\ UNCHANGED otherThanFinder

\* The state setters called by a continuation of task t: they take effect
\* only when the instance that started t is still the mounted one.
HFSet(t, loc, fac, rad, isLoading, err, last) ==
  LET live == t.live IN
  /\ hfUserLocation' = IF live THEN loc ELSE hfUserLocation
  /\ hfFacilities' = IF live THEN fac ELSE hfFacilities
  /\ hfRadiusKm' = IF live THEN rad ELSE hfRadiusKm
  /\ hfIsLoading' = IF live THEN isLoading ELSE hfIsLoading
  /\ hfError' = IF live THEN err ELSE hfError
  /\ hfLastSearched' = IF live THEN last ELSE hfLastSearched

\* Search Nearby Hospitals / Search Again / the refresh icon (disabled
\* while isLoading): handleSearchHospitals up to the geolocation await.
HFSearch ==
  /\ hfMounted
  /\ ~hfIsLoading
  /\ hfSearches < MaxSearches
  /\ hfSearches' = hfSearches + 1
  /\ hfIsLoading' = TRUE
  /\ hfError' = ""
  /\ hfHasSearched' = TRUE
  /\ hfTasks' = hfTasks \cup
       {[id |-> hfSearches + 1, live |-> TRUE, pc |-> "geo",
         closureRadius |-> hfRadiusKm, data |-> NoData, errCode |-> 0,
         reqsUser |-> 0, reqsFb |-> 0]}
  /\ UNCHANGED <<hfNow, hfTicks, hfCache, hfMounted, hfUserLocation,
                 hfFacilities, hfRadiusKm, hfLastSearched>>
  /\ UNCHANGED otherThanFinder

\* The task goes on to await a request: its record is replaced.
HFAwait(t, t2) ==
  /\ hfTasks' = (hfTasks \ {t}) \cup {t2}
  /\ UNCHANGED hfCache

\* The outer catch: the Mumbai fallback replaces the location and the
\* fallback 2.5 km request is issued. code is err.code (0: none).
HFCatch(t, code) ==
  /\ HFAwait(t, [t EXCEPT !.pc = "fb25", !.errCode = code, !.reqsFb = 1,
                          !.data = NoData])
  /\ HFSet(t, "mumbai", hfFacilities, hfRadiusKm, hfIsLoading, hfError,
           hfLastSearched)

\* What the inner catch (catch (fallbackErr)) goes on to do: nothing more.
InnerCatchRetries == "fb25"
InnerCatchPc == "done"

\* The invocation returns (finally: setIsLoading(false)).
HFReturn(t) == hfTasks' = hfTasks \ {t}

\* if (data.success) {...}: the results are cached and shown, with the
\* notice err when the fallback location was used. rad is radiusKm after a
\* possible setRadiusKm(5.0).
HFResults(t, data, loc, rad, err) ==
  LET fac == [n |-> data.n, req |-> data.req] IN
  /\ HFReturn(t)
  /\ hfCache' = [present |-> TRUE, location |-> loc, facilities |-> fac,
                 radiusKm |-> IF data.radius_km # 0 THEN data.radius_km
                              ELSE t.closureRadius,
                 timestamp |-> hfNow]
  /\ HFSet(t, IF loc = "mumbai" THEN "mumbai" ELSE hfUserLocation, fac, rad,
           FALSE, err, hfNow)

\* The inner catch: the error is shown and the invocation returns.
HFInnerCatch(t) ==
  IF InnerCatchPc = "done"
    THEN /\ HFReturn(t)
         /\ UNCHANGED hfCache
         /\ HFSet(t, hfUserLocation, hfFacilities, hfRadiusKm, FALSE,
                  "Unable to fetch nearby facilities", hfLastSearched)
    ELSE /\ HFAwait(t, [t EXCEPT !.pc = InnerCatchPc, !.reqsFb = @ + 1])
         /\ HFSet(t, hfUserLocation, hfFacilities, hfRadiusKm, hfIsLoading,
                  hfError, hfLastSearched)

\* The notice shown with fallback results.
FallbackNotice(code) ==
  IF code = 1
    THEN "Location permission denied. Showing results for Mumbai instead."
    ELSE "Could not get your location. Showing results for Mumbai instead."

\* getCurrentPosition resolves (the 2.5 km request is issued) or rejects
\* with code 1 (permission denied) or another error.
HFGeolocation ==
  \E t \in hfTasks :
    /\ t.pc = "geo"
    /\ \/ /\ HFAwait(t, [t EXCEPT !.pc = "try25", !.reqsUser = 1])
          /\ HFSet(t, "user", hfFacilities, hfRadiusKm, hfIsLoading, hfError,
                   hfLastSearched)
       \/ \E code \in {0, 1} : HFCatch(t, code)
    /\ UNCHANGED <<hfNow, hfTicks, hfMounted, hfHasSearched, hfSearches>>
    /\ UNCHANGED otherThanFinder

\* A search that widens the radius whenever no facility came back.
EscalatesOnEmpty(data) == data.n = 0

\* if (data.success && (!data.facilities || data.facilities.length === 0)):
\* the 2.5 km result asks for the 5 km request.
Escalates(data) == data.success /\ data.n = 0

\* The 2.5 km request of task t for the obtained position settles with resp.
HFFirstSettle(t, resp) ==
  LET kind == resp.kind
      data == resp.body IN
  /\ t.pc = "try25"
  /\ IF kind # "json"
       THEN HFCatch(t, 0)
       ELSE IF Escalates(data)
         THEN /\ HFAwait(t, [t EXCEPT !.pc = "try5", !.data = data,
                                      !.reqsUser = @ + 1])
              /\ HFSet(t, hfUserLocation, hfFacilities, hfRadiusKm,
                       hfIsLoading, hfError, hfLastSearched)
         ELSE IF data.success
           THEN HFResults(t, data, "user", hfRadiusKm, hfError)
           ELSE HFCatch(t, 0)
  /\ UNCHANGED <<hfNow, hfTicks, hfMounted, hfHasSearched, hfSearches>>
  /\ UNCHANGED otherThanFinder

HFFirstSettles ==
  \E t \in hfTasks, resp \in Responses(Radius25) : HFFirstSettle(t, resp)

\* The 5 km request of task t for the obtained position settles with resp.
HFWiderSettle(t, resp) ==
  LET kind == resp.kind
      data == resp.body IN
  /\ t.pc = "try5"
  /\ IF kind = "throw"
       THEN HFCatch(t, 0)
       ELSE IF kind = "json" /\ data.success
         THEN HFResults(t, data, "user", Radius50, hfError)
         ELSE HFResults(t, t.data, "user", hfRadiusKm, hfError)
  /\ UNCHANGED <<hfNow, hfTicks, hfMounted, hfHasSearched, hfSearches>>
  /\ UNCHANGED otherThanFinder

HFWiderSettles ==
  \E t \in hfTasks, resp \in Responses(Radius50) : HFWiderSettle(t, resp)

\* The 2.5 km request of task t for the fallback location settles with
\* resp.
HFFallbackSettle(t, resp) ==
  LET kind == resp.kind
      data == resp.body IN
  /\ t.pc = "fb25"
  /\ IF kind # "json"
       THEN HFInnerCatch(t)
       ELSE IF Escalates(data)
         THEN /\ HFAwait(t, [t EXCEPT !.pc = "fb5", !.data = data,
                                      !.reqsFb = @ + 1])
              /\ HFSet(t, hfUserLocation, hfFacilities, hfRadiusKm,
                       hfIsLoading, hfError, hfLastSearched)
         ELSE IF data.success
           THEN HFResults(t, data, "mumbai", hfRadiusKm,
                          FallbackNotice(t.errCode))
           ELSE HFInnerCatch(t)
  /\ UNCHANGED <<hfNow, hfTicks, hfMounted, hfHasSearched, hfSearches>>
  /\ UNCHANGED otherThanFinder

HFFallbackSettles ==
  \E t \in hfTasks, resp \in Responses(Radius25) : HFFallbackSettle(t, resp)

\* The 5 km request of task t for the fallback location settles with resp.
HFFallbackWiderSettle(t, resp) ==
  LET kind == resp.kind
      data == resp.body IN
  /\ t.pc = "fb5"
  /\ IF kind = "throw"
       THEN HFInnerCatch(t)
       ELSE IF kind = "json" /\ data.success
         THEN HFResults(t, data, "mumbai", Radius50, FallbackNotice(t.errCode))
         ELSE HFResults(t, t.data, "mumbai", hfRadiusKm,
                        FallbackNotice(t.errCode))
  /\ UNCHANGED <<hfNow, hfTicks, hfMounted, hfHasSearched, hfSearches>>
  /\ UNCHANGED otherThanFinder

HFFallbackWiderSettles ==
  \E t \in hfTasks, resp \in Responses(Radius50) :
    HFFallbackWiderSettle(t, resp)

FinderNext ==
  \/ HFTick
  \/ HFMount
  \/ HFUnmount
  \/ HFSearch
  \/ HFGeolocation
  \/ HFFirstSettles
  \/ HFWiderSettles
  \/ HFFallbackSettles
  \/ HFFallbackWiderSettles

\* ================================================= the decision engine
\* RiskScorer, SurgePredictor and RecommendationEngine are pure functions
\* of a reading and a department baseline table. Scores and percentages
\* are kept in hundredths (a score of 20.00 is 2000), multipliers in
\* hundredths (1.00 is 100), weights in percent (they sum to 100).

Max(a, b) == IF a > b THEN a ELSE b

\* Out-of-range inputs are clamped to the valid range before scoring.
Clamp(x, lo, hi) == IF x < lo THEN lo ELSE IF x > hi THEN hi ELSE x

\* round(n / d), halves up, for n >= 0 and d > 0
Round(n, d) == (2 * n + d) \div (2 * d)

\* the ceiling of n / d, for n >= 0 and d > 0
Ceiling(n, d) == (n + d - 1) \div d

\* Configuration of the scorer: the comfortable band of the temperature
\* component, the moderate band of the humidity component, the monsoon
\* months of the seasonal table, the weight table.
ComfortableAbove == 32
ColdBelow == 15
DryBelow == 30
HumidAbove == 60
SeasonalTable == [m \in 1..12 |-> IF m \in 6..9 THEN 60 ELSE 20]
RiskWeights == [temperature |-> 30, aqi |-> 40, humidity |-> 20, seasonal |-> 10]

\* Temperature component: flat inside the band, rising linearly outside.
TemperatureScore(celsius) ==
  IF celsius > ComfortableAbove
    THEN Clamp(10 + 15 * (celsius - ComfortableAbove), 0, 100)
    ELSE IF celsius < ColdBelow
      THEN Clamp(10 + 5 * (ColdBelow - celsius), 0, 100)
      ELSE 10

\* AQI component: the standard category breakpoints, scaled to 0-100.
AqiScore(aqi) ==
  LET a == Clamp(aqi, 0, 500) IN
  IF a <= 50 THEN 10
  ELSE IF a <= 100 THEN 30
  ELSE IF a <= 150 THEN 50
  ELSE IF a <= 200 THEN 80
  ELSE IF a <= 300 THEN 90
  ELSE 100

\* Humidity component: extremes are penalised, the moderate band is flat.
HumidityScore(humidity) ==
  LET h == Clamp(humidity, 0, 100) IN
  IF h < DryBelow THEN 10 + (DryBelow - h)
  ELSE IF h > HumidAbove THEN 10 + (h - HumidAbove)
  ELSE 10

\* Seasonal component: read from the configuration table by month.
SeasonalScore(month) == SeasonalTable[month]

\* The weighted combination of the four component scores, in hundredths.
WeightedSum(w, c) ==
  w.temperature * c.temperature + w.aqi * c.aqi
    + w.humidity * c.humidity + w.seasonal * c.seasonal

\* The threshold table: [0,20) very_low, [20,40) low, [40,60) moderate,
\* [60,80) high, [80,100] very_high. hi is exclusive, so the closed end
\* 100.00 of the last interval is written 10001.
ThresholdTableGap ==
  << [level |-> "very_low", lo |-> 0, hi |-> 2000],
     [level |-> "low", lo |-> 2000, hi |-> 4000],
     [level |-> "moderate", lo |-> 4000, hi |-> 6000],
     [level |-> "high", lo |-> 6001, hi |-> 8000],
     [level |-> "very_high", lo |-> 8000, hi |-> 10001] >>
ThresholdTable ==
  << [level |-> "very_low", lo |-> 0, hi |-> 2000],
     [level |-> "low", lo |-> 2000, hi |-> 4000],
     [level |-> "moderate", lo |-> 4000, hi |-> 6000],
     [level |-> "high", lo |-> 6000, hi |-> 8000],
     [level |-> "very_high", lo |-> 8000, hi |-> 10001] >>

\* The rows of the threshold table whose interval contains the score.
RowsContaining(score) ==
  {i \in 1..Len(ThresholdTable) :
     ThresholdTable[i].lo <= score /\ score < ThresholdTable[i].hi}

\* risk_level: the level of the first row that contains the score.
RiskLevel(score) ==
  IF RowsContaining(score) = {}
    THEN "none"
    ELSE LET first == CHOOSE i \in RowsContaining(score) :
                        \A j \in RowsContaining(score) : i <= j
         IN ThresholdTable[first].level

\* score(reading) -> RiskAssessment
Score(reading) ==
  LET c == [temperature |-> TemperatureScore(reading.temperature),
            aqi |-> AqiScore(reading.aqi),
            humidity |-> HumidityScore(reading.humidity),
            seasonal |-> SeasonalScore(reading.month)]
      overall == WeightedSum(RiskWeights, c)
  IN [components |-> c,
      overall_risk_score |-> overall,
      risk_level |-> RiskLevel(overall)]

\* A weighted score of 50.00 is a multiplier of 1.00.
MultiplierScale == 50

\* The multiplier floor: surge never reduces patient counts.
Unfloored(m) == m
Floored(m) == Max(100, m)

\* The department multiplier, in hundredths.
Multiplier(dept, c) == Floored(WeightedSum(dept.weights, c) \div MultiplierScale)

\* surge_percentage in hundredths of a percent, 0 when base_patients is 0.
SurgePercentage(base, predicted) ==
  IF base = 0 THEN 0 ELSE ((predicted - base) * 10000) \div base

\* The DepartmentPrediction of one baseline row.
PredictDepartment(dept, c) ==
  LET m == Multiplier(dept, c)
      predicted == Round(dept.base_patients * m, 100)
  IN [name |-> dept.name,
      base_patients |-> dept.base_patients,
      multiplier |-> m,
      predicted_patients |-> predicted,
      surge_percentage |-> SurgePercentage(dept.base_patients, predicted)]

\* The sum of a sequence of numbers.
RECURSIVE SumSeq(_)
SumSeq(s) == IF s = <<>> THEN 0 ELSE Head(s) + SumSeq(Tail(s))

BasePatients(predictions) ==
  [i \in 1..Len(predictions) |-> predictions[i].base_patients]
PredictedPatients(predictions) ==
  [i \in 1..Len(predictions) |-> predictions[i].predicted_patients]
WeightedMultipliers(predictions) ==
  [i \in 1..Len(predictions) |->
     predictions[i].base_patients * predictions[i].multiplier]

\* The baseline volume instead of the predicted one.
TotalBase(predictions) == SumSeq(BasePatients(predictions))

\* total_predicted_patients: the sum over the departments of the report.
TotalPredicted(predictions) == SumSeq(PredictedPatients(predictions))

\* overall_surge_multiplier: the average of the department multipliers
\* weighted by base_patients (1.00 when there is no baseline volume).
OverallMultiplier(predictions) ==
  LET volume == SumSeq(BasePatients(predictions)) IN
  IF volume = 0
    THEN 100
    ELSE SumSeq(WeightedMultipliers(predictions)) \div volume

\* compute_surge(reading, baselines) -> SurgeReport. The department list
\* covers the baseline table in the same order.
ComputeSurgeReport(reading, baselines) ==
  LET risk == Score(reading)
      predictions == [i \in 1..Len(baselines) |->
                        PredictDepartment(baselines[i], risk.components)]
  IN [conditions |-> reading,
      risk |-> risk,
      risk_level |-> risk.risk_level,
      overall_surge_multiplier |-> OverallMultiplier(predictions),
      department_predictions |-> predictions,
      total_predicted_patients |-> TotalPredicted(predictions)]

\* Configuration of the recommendation engine: the high-priority threshold
\* (30.00 %) and the critical-care set.
SurgeThreshold == 3000
CriticalCare == {"Emergency", "ICU"}

\* A department qualifies for a PriorityAlert.
QualifiesAnySurge(p) == p.surge_percentage > 0
Qualifies(p) == p.surge_percentage > SurgeThreshold

\* The output records; all variants carry the same fields.
PriorityAlert(p) ==
  [kind |-> "PriorityAlert",
   priority |-> IF p.name \in CriticalCare THEN "critical" ELSE "high",
   department |-> p.name,
   item |-> "",
   direction |-> "",
   amount |-> p.surge_percentage,
   timeline |-> ""]

\* count_change is the ceiling of the staffing gap.
StaffingAction(j) ==
  [kind |-> "StaffingAction",
   priority |-> "",
   department |-> j.p.name,
   item |-> "",
   direction |-> "increase",
   amount |-> Ceiling(j.p.predicted_patients
                        - j.b.staff * j.b.patients_per_staff,
                      j.b.patients_per_staff),
   timeline |-> ""]

\* quantity_change is (predicted - base) * per-patient consumption.
InventoryAction(j) ==
  [kind |-> "InventoryAction",
   priority |-> "",
   department |-> j.p.name,
   item |-> j.b.item,
   direction |-> "increase",
   amount |-> (j.p.predicted_patients - j.p.base_patients) * j.b.per_patient,
   timeline |-> ""]

OperationalRecommendation(area, timeline) ==
  [kind |-> "OperationalRecommendation",
   priority |-> "",
   department |-> "",
   item |-> "",
   direction |-> "",
   amount |-> 0,
   timeline |-> timeline]

\* The catalogue of operational templates by risk_level; the immediate
\* timeline appears only at high and very_high.
Catalogue(level) ==
  IF level \in {"high", "very_high"}
    THEN << OperationalRecommendation("capacity", "immediate"),
            OperationalRecommendation("monitoring", "ongoing") >>
    ELSE IF level = "moderate"
      THEN << OperationalRecommendation("monitoring", "ongoing") >>
      ELSE << OperationalRecommendation("monitoring", "routine") >>

IsCritical(a) == a.priority = "critical"
IsHigh(a) == a.priority = "high"

\* Predicted patients exceed the staffing capacity of the department.
NeedsStaff(j) ==
  j.p.predicted_patients > j.b.staff * j.b.patients_per_staff

\* The department has a consumable and a surge to supply.
NeedsStock(j) ==
  j.b.item # "" /\ j.p.predicted_patients > j.p.base_patients

\* f applied to every element of s
Map(s, f(_)) == [i \in 1..Len(s) |-> f(s[i])]

\* The PriorityAlerts: one per qualifying department in department order,
\* then ordered by priority (critical before high) keeping that order
\* inside each priority.
PriorityAlerts(predictions) ==
  LET emitted == Map(SelectSeq(predictions, Qualifies), PriorityAlert)
  IN SelectSeq(emitted, IsCritical) \o SelectSeq(emitted, IsHigh)

\* recommend(report) -> the ordered list of RecommendedActions. The
\* staffing ratio and the consumable of a department come from its
\* baseline row.
Recommend(report, baselines) ==
  LET predictions == report.department_predictions
      joined == [i \in 1..Len(predictions) |->
                   [p |-> predictions[i], b |-> baselines[i]]]
  IN PriorityAlerts(predictions)
       \o Map(SelectSeq(joined, NeedsStaff), StaffingAction)
       \o Map(SelectSeq(joined, NeedsStock), InventoryAction)
       \o Catalogue(report.risk_level)

IsPriorityAlert(a) == a.kind = "PriorityAlert"
IsStaffingAction(a) == a.kind = "StaffingAction"
IsInventoryAction(a) == a.kind = "InventoryAction"
IsOperational(a) == a.kind = "OperationalRecommendation"

\* compute_recommendations(report): the list in the shape the panel reads.
ComputeRecommendationsResponse(list) ==
  [priority_alerts |-> SelectSeq(list, IsPriorityAlert),
   staffing_actions |-> SelectSeq(list, IsStaffingAction),
   inventory_actions |-> SelectSeq(list, IsInventoryAction),
   operational_recommendations |-> SelectSeq(list, IsOperational)]

\* A panel with the inventory card above the staffing card.
PanelGroupsInventoryFirst(r) ==
  r.priority_alerts \o r.inventory_actions \o r.staffing_actions
    \o r.operational_recommendations

\* What AutonomousAgentPanel shows of analysis.ai_recommendations, top to
\* bottom: the Priority Alerts card, the Staffing Recommendations card, the
\* Inventory Recommendations card, the Operational Recommendations card,
\* each a .map over its array in the received order.
PanelGroups(r) ==
  r.priority_alerts \o r.staffing_actions \o r.inventory_actions
    \o r.operational_recommendations

\* The readings and the baseline tables the engine is exercised with.
Readings ==
  [temperature : {-5, 10, 24, 33, 38, 60},
   humidity : {-10, 50, 64, 65, 66, 120},
   aqi : {-20, 40, 80, 180, 600},
   month : {1, 7}]

Respiratory ==
  [name |-> "Respiratory", base_patients |-> 100,
   weights |-> [temperature |-> 20, aqi |-> 60, humidity |-> 10, seasonal |-> 10],
   staff |-> 10, patients_per_staff |-> 12, item |-> "masks", per_patient |-> 2]
Emergency ==
  [name |-> "Emergency", base_patients |-> 50,
   weights |-> [temperature |-> 40, aqi |-> 30, humidity |-> 20, seasonal |-> 10],
   staff |-> 6, patients_per_staff |-> 10, item |-> "iv_fluids", per_patient |-> 1]
Orthopedics ==
  [name |-> "Orthopedics", base_patients |-> 40,
   weights |-> [temperature |-> 40, aqi |-> 20, humidity |-> 10, seasonal |-> 30],
   staff |-> 5, patients_per_staff |-> 10, item |-> "", per_patient |-> 0]
Maternity ==
  [name |-> "Maternity", base_patients |-> 0,
   weights |-> [temperature |-> 25, aqi |-> 25, humidity |-> 25, seasonal |-> 25],
   staff |-> 2, patients_per_staff |-> 8, item |-> "", per_patient |-> 0]

BaselineTables ==
  { <<Respiratory, Emergency, Orthopedics>>,
    <<Orthopedics, Emergency, Maternity>> }

EngineInit ==
  /\ enReading = <<>>
  /\ enBaselines = <<>>
  /\ enReport = <<>>
  /\ enRecs = <<>>
  /\ enPanel = <<>>

\* compute_surge is called with a reading and the baselines of a hospital.
\* The functions are pure, so one run of the pipeline is followed.
ComputeSurge ==
  \E reading \in Readings, baselines \in BaselineTables :
    /\ enReport = <<>>
    /\ enReading' = <<reading>>
    /\ enBaselines' = baselines
    /\ enReport' = <<ComputeSurgeReport(reading, baselines)>>
    /\ enRecs' = <<>>
    /\ enPanel' = <<>>
    /\ UNCHANGED otherThanEngine

\* recommend is called with the report.
ComputeRecommendations ==
  /\ enReport # <<>>
  /\ enRecs = <<>>
  /\ enRecs' = <<Recommend(enReport[1], enBaselines)>>
  /\ UNCHANGED <<enReading, enBaselines, enReport, enPanel>>
  /\ UNCHANGED otherThanEngine

\* The agent panel renders the response of compute_recommendations.
PanelRender ==
  /\ enRecs # <<>>
  /\ enPanel = <<>>
  /\ enPanel' = <<PanelGroups(ComputeRecommendationsResponse(enRecs[1]))>>
  /\ UNCHANGED <<enReading, enBaselines, enReport, enRecs>>
  /\ UNCHANGED otherThanEngine

EngineNext ==
  \/ ComputeSurge
  \/ ComputeRecommendations
  \/ PanelRender

\* ====================================== the multi-location aggregator
Cities == {"A", "B", "C"}

\* The calls compare_locations is exercised with: up to MaxLocations names.
LocationLists == UNION {[1..n -> Cities] : n \in 1..MaxLocations}

Comfortable == [temperature |-> 24, humidity |-> 50, aqi |-> 40, month |-> 1]
Hot == [temperature |-> 38, humidity |-> 70, aqi |-> 180, month |-> 7]

\* What the reading provider answers for one location: a reading, or a
\* failure (UpstreamUnavailable).
Pending == [state |-> "pending", reading |-> Comfortable]
Failed == [state |-> "failed", reading |-> Comfortable]
Fetched(reading) == [state |-> "ok", reading |-> reading]
FetchOutcomes == {Failed, Fetched(Comfortable), Fetched(Hot)}

NoSummary ==
  [highest_risk_city |-> "", lowest_risk_city |-> "", average_risk_score |-> 0]

FetchOk(j) == j.fetch.state = "ok"
FetchFailed(j) == j.fetch.state = "failed"

\* The per-location detail of one location.
CityDetail(j) == [name |-> j.name, risk |-> Score(j.fetch.reading)]

NameOf(j) == j.name

\* Every location gets a row, a failed one from a default reading.
ScoredWithDefaults(joined) == Map(joined, CityDetail)

\* The rows of the locations whose reading was obtained, in call order.
Scored(joined) == Map(SelectSeq(joined, FetchOk), CityDetail)

\* highest_risk / lowest_risk / average_risk_score over the scored rows.
Summary(rows) ==
  IF rows = <<>>
    THEN NoSummary
    ELSE
      LET scores == [i \in 1..Len(rows) |-> rows[i].risk.overall_risk_score]
          highest == CHOOSE i \in 1..Len(rows) :
                       /\ \A k \in 1..Len(rows) : scores[k] <= scores[i]
                       /\ \A k \in 1..(i - 1) : scores[k] < scores[i]
          lowest == CHOOSE i \in 1..Len(rows) :
                      /\ \A k \in 1..Len(rows) : scores[i] <= scores[k]
                      /\ \A k \in 1..(i - 1) : scores[i] < scores[k]
      IN [highest_risk_city |-> rows[highest].name,
          lowest_risk_city |-> rows[lowest].name,
          average_risk_score |-> SumSeq(scores) \div Len(rows)]

\* An aggregator that answers success whatever was scored.
NeverTotalFailure(rows) == FALSE

\* Zero locations succeeded.
TotalFailure(rows) == rows = <<>>

\* compare(locations): the result once every fetch has settled.
Compare(names, fetched) ==
  LET joined == [i \in 1..Len(names) |-> [name |-> names[i], fetch |-> fetched[i]]]
      rows == Scored(joined)
      failed == Map(SelectSeq(joined, FetchFailed), NameOf)
  IN IF TotalFailure(rows)
       THEN [success |-> FALSE, error |-> "NoDataAvailable",
             cities_analyzed |-> 0, city_data |-> <<>>,
             summary |-> NoSummary, partial_failure |-> failed]
       ELSE [success |-> TRUE, error |-> "",
             cities_analyzed |-> Len(rows), city_data |-> rows,
             summary |-> Summary(rows), partial_failure |-> failed]

CompareInit ==
  /\ cmpNames = <<>>
  /\ cmpFetched = <<>>
  /\ cmpResult = <<>>

\* compare_locations(names) is called when no call is in progress: one
\* reading fetch per location.
CompareLocations ==
  \E names \in LocationLists :
    /\ cmpNames = <<>> \/ cmpResult # <<>>
    /\ cmpNames' = names
    /\ cmpFetched' = [i \in 1..Len(names) |-> Pending]
    /\ cmpResult' = <<>>
    /\ UNCHANGED otherThanCompare

\* The fetch of one location settles, with a reading or a failure; the
\* other fetches go on.
FetchSettles ==
  \E i \in 1..Len(cmpNames), outcome \in FetchOutcomes :
    /\ cmpFetched[i] = Pending
    /\ cmpFetched' = [cmpFetched EXCEPT ![i] = outcome]
    /\ UNCHANGED <<cmpNames, cmpResult>>
    /\ UNCHANGED otherThanCompare

\* Every fetch has settled: the result is assembled.
Aggregate ==
  /\ cmpNames # <<>>
  /\ cmpResult = <<>>
  /\ \A i \in 1..Len(cmpNames) : cmpFetched[i] # Pending
  /\ cmpResult' = <<Compare(cmpNames, cmpFetched)>>
  /\ UNCHANGED <<cmpNames, cmpFetched>>
  /\ UNCHANGED otherThanCompare

CompareNext ==
  \/ CompareLocations
  \/ FetchSettles
  \/ Aggregate

\* ================================================ MultiCityComparison
\* The items of the Select: Top 5 Cities, Western India, Southern India,
\* Northern India (their values are the city lists, joined by commas).
Presets == {"Top5", "Western", "Southern", "Northern"}

\* The initial value of selectedCities: Mumbai, Delhi, Bangalore, Chennai,
\* Kolkata.
DefaultCities == "Top5"

NoComparison == [cities |-> "", id |-> 0]

MultiInit ==
  /\ mcMounted = FALSE
  /\ multiCityData = NoComparison
  /\ selectedCities = DefaultCities
  /\ mcLoading = TRUE
  /\ mcError = ""
  /\ mcInflight = {}
  /\ mcReqCount = 0

\* A render that shows the comparison whatever error is.
MCViewNoErrorGate ==
  IF mcLoading THEN "loading"
  ELSE IF multiCityData = NoComparison THEN "null"
  ELSE "data"

\* What the component renders: the spinner, the error card with Try Again,
\* nothing, or the comparison with the Select and Refresh.
MCView ==
  IF mcLoading THEN "loading"
  ELSE IF mcError # "" THEN "error"
  ELSE IF multiCityData = NoComparison THEN "null"
  ELSE "data"

\* fetchMultiCityData(cities) up to its await.
FetchMultiCityData(cities) ==
  /\ mcLoading' = TRUE
  /\ mcError' = ""
  /\ mcReqCount' = mcReqCount + 1
  /\ mcInflight' = mcInflight \cup {[id |-> mcReqCount + 1, cities |-> cities]}

\* The mount effect: fetchMultiCityData(selectedCities).
MCMount ==
  /\ ~mcMounted
  /\ mcReqCount < MaxFetches
  /\ mcMounted' = TRUE
  /\ FetchMultiCityData(selectedCities)
  /\ UNCHANGED <<multiCityData, selectedCities>>
  /\ UNCHANGED otherThanMulti

\* The Select (rendered with the comparison): handleCityChange(cities).
MCHandleCityChange ==
  \E cities \in Presets :
    /\ mcMounted
    /\ MCView = "data"
    /\ mcReqCount < MaxFetches
    /\ selectedCities' = cities
    /\ FetchMultiCityData(cities)
    /\ UNCHANGED <<mcMounted, multiCityData>>
    /\ UNCHANGED otherThanMulti

\* Refresh (rendered with the comparison) and Try Again (rendered with the
\* error): handleRefresh.
MCHandleRefresh ==
  /\ mcMounted
  /\ MCView \in {"data", "error"}
  /\ mcReqCount < MaxFetches
  /\ FetchMultiCityData(selectedCities)
  /\ UNCHANGED <<mcMounted, multiCityData, selectedCities>>
  /\ UNCHANGED otherThanMulti

\* How a request can end: data.success with a comparison, data.success
\* without one, data.success false, fetch or json() throwing.
MCOutcomes == {"ok", "empty", "unsuccessful", "throw"}

\* The promise of request r settles and the rest of fetchMultiCityData
\* runs.
MCSettle(r, outcome) ==
  /\ r \in mcInflight
  /\ mcInflight' = mcInflight \ {r}
  /\ multiCityData' = IF outcome = "ok"
                        THEN [cities |-> r.cities, id |-> r.id]
                      ELSE IF outcome = "empty" THEN NoComparison
                      ELSE multiCityData
  /\ mcError' = IF outcome = "unsuccessful" THEN "Failed to fetch city data"
                ELSE IF outcome = "throw"
                  THEN "Unable to connect to multi-city service"
                ELSE mcError
  /\ mcLoading' = FALSE
  /\ UNCHANGED <<mcMounted, selectedCities, mcReqCount>>
  /\ UNCHANGED otherThanMulti

MCSettles == \E r \in mcInflight, outcome \in MCOutcomes : MCSettle(r, outcome)

MultiNext ==
  \/ MCMount
  \/ MCHandleCityChange
  \/ MCHandleRefresh
  \/ MCSettles

\* ======================================================= specifications

Init ==
  /\ ConsultInit /\ AgentInit /\ SurgeInit /\ InventoryInit /\ FinderInit
  /\ EngineInit /\ CompareInit /\ MultiInit

SpecConsult == Init /\ [][ConsultNext]_vars

\* The tab's sessionStorage may hold anything under CACHE_KEY when the page
\* is loaded: nothing, or a value the mount effect cannot parse.
InitStorage ==
  /\ cache \in {NoEntry, Unparsable}
  /\ now = 0
  /\ ticks = 0
  /\ aiMounted = FALSE
  /\ aiInst = 0
  /\ aiPlan = 0
  /\ aiLastGenerated = -1
  /\ aiLoading = FALSE
  /\ aiError = ""
  /\ aiInflight = {}
  /\ aiReqCount = 0
  /\ aiMountAge = -1
  /\ AgentInit /\ SurgeInit /\ InventoryInit /\ FinderInit
  /\ EngineInit /\ CompareInit /\ MultiInit

SpecConsultStorage == InitStorage /\ [][ConsultNext]_vars

SpecAgent == Init /\ [][AgentNext]_vars

SpecSurge == Init /\ [][SurgeNext]_vars

SpecInventory == Init /\ [][InventoryNext]_vars

SpecFinder == Init /\ [][FinderNext]_vars

SpecEngine == Init /\ [][EngineNext]_vars

SpecCompare == Init /\ [][CompareNext]_vars

SpecMulti == Init /\ [][MultiNext]_vars

\* ============================================================== claims

\* A step in which a new AIConsultation instance runs its mount effect.
AIMountStep == ~aiMounted /\ aiMounted'

\* A step in which the mounted instance calls autoGeneratePlan from the
\* Regenerate Plan button.
AIRegenerateStep == aiMounted /\ aiMounted' /\ aiReqCount' = aiReqCount + 1

\* The state of the cache key 'citizen_health_plan'.
KeyState ==
  IF aiInflight # {} THEN "Computing"
  ELSE IF ~cache.present THEN "Idle"
  ELSE IF cache.parsable /\ now - cache.timestamp < CACHE_DURATION THEN "Cached"
  ELSE "Stale"

\* C1 (as claimed): while the cache holds no entry for the key, callers of
\* get_or_refresh share one execution: at most one generation request is in
\* flight.
C1_OneExecution == ~cache.present => Cardinality(aiInflight) <= 1

\* C4: a mount that finds an entry younger than CACHE_DURATION shows the
\* cached plan, leaves the entry alone and starts no request; at age 1799 s
\* no request is started and at age 1801 s one request is started.
C4_FreshHit ==
  [][AIMountStep /\ cache.present =>
      /\ (now - cache.timestamp < CACHE_DURATION =>
            /\ aiReqCount' = aiReqCount
            /\ aiInflight' = aiInflight
            /\ cache' = cache
            /\ aiPlan' = cache.plan
            /\ ~aiLoading')
      /\ (now - cache.timestamp = 1799 * Second => aiReqCount' = aiReqCount)
      /\ (now - cache.timestamp = 1801 * Second =>
            aiReqCount' = aiReqCount + 1)]_vars

\* C4 witness: an instance mounted on an entry of age 1799 s and shows it.
C4_Witness ==
  /\ aiMounted
  /\ aiMountAge = 1799 * Second
  /\ cache.present
  /\ aiPlan = cache.plan
  /\ ~aiLoading
  /\ aiInflight = {}

C7_ForceRefreshCoalesces == [][AIRegenerateStep => aiInflight = {}]_vars

ClaimedTransitions ==
  { <<"Idle", "Computing">>, <<"Computing", "Cached">>,
    <<"Cached", "Stale">>, <<"Stale", "Computing">> }

\* C9 (as claimed): the key's state changes only along Idle -> Computing,
\* Computing -> Cached, Cached -> Stale and Stale -> Computing.
C9_ClaimedTransitionsOnly ==
  [][KeyState' # KeyState => <<KeyState, KeyState'>> \in ClaimedTransitions]_vars

\* C9 (amended): the key's state changes only along the four claimed
\* transitions and Cached -> Computing (Regenerate within the TTL),
\* Computing -> Idle (a failure with nothing stored) and Computing -> Stale
\* (the last request settles when the stored entry is expired).
C9_Transitions ==
  [][KeyState' # KeyState =>
      <<KeyState, KeyState'>> \in
        ClaimedTransitions \cup { <<"Cached", "Computing">>,
                                  <<"Computing", "Idle">>,
                                  <<"Computing", "Stale">> }]_vars

\* C9 witness: Regenerate was pressed on a fresh entry (Cached -> Computing).
C9_Witness ==
  /\ aiMounted
  /\ aiLoading
  /\ cache.present
  /\ now - cache.timestamp < CACHE_DURATION
  /\ KeyState = "Computing"

\* C2 (as claimed): a result computed from an older input never replaces a
\* stored result computed from a newer input, whatever the completion order.
C2_NoStaleOverwrite ==
  [][agMounted /\ agMounted' /\ analysis # 0 => analysis' >= analysis]_vars

\* C3 (as claimed): once a good value is stored, a failed refresh leaves it
\* served: whenever the dashboard holds a report and is not loading, the
\* report is what is shown, not the failure.
C3_ServeLastGood ==
  sgMounted /\ surgeData # 0 /\ ~sgLoading => SurgeView = "data"

\* A step in which a checkAgent fetch of the mounted instance fails.
CheckFailsStep ==
  /\ agDone' = agDone + 1
  /\ agLast'.kind = "check"
  /\ agLast'.outcome # "ok"

\* C6: a failed periodic check changes neither the stored analysis, nor
\* lastCheck, nor the error and loading state, nor the timer; and the stored
\* analysis of a mounted panel changes only when a fetch succeeds.
C6_CheckFailureContained ==
  [][/\ CheckFailsStep =>
          /\ analysis' = analysis
          /\ lastCheck' = lastCheck
          /\ error' = error
          /\ loading' = loading
          /\ agTimers' = agTimers
          /\ autoMode' = autoMode
     /\ agMounted /\ agMounted' /\ analysis' # analysis =>
          /\ agDone' = agDone + 1
          /\ agLast'.outcome = "ok"]_vars

\* C6 witness: a check of the mounted panel threw while an analysis was
\* stored; the analysis is still there, no error is shown, the timer runs.
C6_Witness ==
  /\ agMounted
  /\ agLast = [kind |-> "check", outcome |-> "throw", live |-> TRUE]
  /\ analysis # 0
  /\ error = ""
  /\ agTimers # {}

\* C8: the number of active intervals is 1 if the panel is mounted with auto
\* mode on and 0 otherwise, and an interval may fire whether or not a manual
\* request is outstanding.
C8_OneTimer ==
  /\ Cardinality(agTimers) = IF agMounted /\ autoMode THEN 1 ELSE 0
  /\ agTimers = IF agEffectTimer = 0 THEN {} ELSE {agEffectTimer}

\* C8 witness: auto mode was switched off and on again; one interval is
\* active.
C8_Witness ==
  /\ agMounted
  /\ autoMode
  /\ agTimerSeq >= 2
  /\ agInst = 1
  /\ Cardinality(agTimers) = 1

\* C10: updateInventoryStatus is called only by a click on one of a row's
\* three buttons, with that row's item and that button's status; and the
\* status of an item at the backend changes only to a status such a call
\* asked for.
C10_ProposalsOnly ==
  [][/\ hdUpdateCalls' # hdUpdateCalls =>
          /\ hdLastAction' = "clickStatus"
          /\ Len(hdUpdateCalls') = Len(hdUpdateCalls) + 1
          /\ SubSeq(hdUpdateCalls', 1, Len(hdUpdateCalls)) = hdUpdateCalls
     /\ srvStatus' # srvStatus =>
          \E k \in 1..Len(hdUpdateCalls) :
            srvStatus' = [srvStatus EXCEPT
                            ![hdUpdateCalls[k].item] = hdUpdateCalls[k].status]]_vars

\* C10 witness: the section was loaded, the recommendations were
\* recalculated, and the one status update issued is the one the user
\* clicked; the table shows it.
C10_Witness ==
  /\ srvRecalcs >= 1
  /\ Len(hdUpdateCalls) = 1
  /\ hdTasks = {}
  /\ srvStatus[hdUpdateCalls[1].item] = hdUpdateCalls[1].status
  /\ inventory = srvStatus

\* The position of a handleSearchHospitals invocation: each await is later
\* than the ones before it.
Rank(pc) ==
  CASE pc = "geo" -> 0
    [] pc = "try25" -> 1
    [] pc = "try5" -> 2
    [] pc = "fb25" -> 3
    [] pc = "fb5" -> 4

\* C11: a search issues at most 2 requests for the obtained position and at
\* most 2 for the fallback location; every request it issues moves it to a
\* later await (it never repeats one); and when it returns, the mounted
\* instance is no longer loading and shows results or an error.
C11_BoundedRetry ==
  [][/\ \A t2 \in hfTasks' :
          /\ t2.reqsUser <= 2
          /\ t2.reqsFb <= 2
          /\ \A t \in hfTasks :
               t.id = t2.id /\ t.reqsUser + t.reqsFb < t2.reqsUser + t2.reqsFb =>
                 /\ Rank(t.pc) < Rank(t2.pc)
                 /\ t2.reqsUser + t2.reqsFb = t.reqsUser + t.reqsFb + 1
     /\ \A t \in hfTasks :
          t.live /\ hfMounted' /\ (\A t2 \in hfTasks' : t2.id # t.id) =>
            /\ ~hfIsLoading'
            /\ hfError' # "" \/ hfLastSearched' = hfNow]_vars

\* C11 witness: a search that has issued its fourth request (2.5 km and
\* 5 km for the position, 2.5 km and 5 km for the fallback location).
C11_Witness ==
  \E t \in hfTasks :
    /\ t.live
    /\ t.pc = "fb5"
    /\ t.reqsUser = 2
    /\ t.reqsFb = 2

\* C19 (as claimed): at most one surge-prediction request is outstanding.
C19_OneSurgeRequest == Cardinality(sgInflight) <= 1

\* C20: a mount that finds an expired or unparsable entry removes it; a
\* mount starts exactly one generation request when it loaded no valid
\* entry, and none when it loaded one.
C20_MountEffect ==
  [][AIMountStep =>
      LET valid == /\ cache.present
                   /\ cache.parsable
                   /\ now - cache.timestamp < CACHE_DURATION
      IN IF valid
           THEN /\ aiPlan' = cache.plan
                /\ aiInflight' = aiInflight
                /\ aiReqCount' = aiReqCount
                /\ cache' = cache
           ELSE /\ ~cache'.present
                /\ aiPlan' = 0
                /\ aiLoading'
                /\ aiReqCount' = aiReqCount + 1
                /\ Cardinality(aiInflight' \ aiInflight) = 1]_vars

\* C20 witness: an instance mounted on an unparsable entry, removed it and
\* has one request outstanding.
C20_Witness ==
  /\ aiMounted
  /\ aiMountAge = -2
  /\ ~cache.present
  /\ aiLoading
  /\ Cardinality(aiInflight) = 1

\* The rank of an action in the fixed ordering of recommend.
ActionRank(a) ==
  CASE a.kind = "PriorityAlert" /\ a.priority = "critical" -> 0
    [] a.kind = "PriorityAlert" /\ a.priority # "critical" -> 1
    [] a.kind = "StaffingAction" -> 2
    [] a.kind = "InventoryAction" -> 3
    [] a.kind = "OperationalRecommendation" -> 4

InRankOrder(list) ==
  \A i, k \in 1..Len(list) : i < k => ActionRank(list[i]) <= ActionRank(list[k])

\* C12: when compare(locations) has settled with at least one success, the
\* failure of a location has aborted nothing: city_data holds exactly the
\* locations whose reading was obtained, each with the score of its own
\* reading, in call order; every failed location is absent from city_data
\* and named in the partial failure; cities_analyzed is the number of
\* scored locations.
C12_PartialFailureIsolated ==
  cmpResult # <<>> /\ (\E i \in 1..Len(cmpNames) : cmpFetched[i].state = "ok") =>
    LET r == cmpResult[1]
        ok == {i \in 1..Len(cmpNames) : cmpFetched[i].state = "ok"}
        bad == {i \in 1..Len(cmpNames) : cmpFetched[i].state = "failed"}
    IN /\ r.success
       /\ r.cities_analyzed = Cardinality(ok)
       /\ Len(r.city_data) = Cardinality(ok)
       /\ \A i \in ok : \E k \in 1..Len(r.city_data) :
            /\ r.city_data[k].name = cmpNames[i]
            /\ r.city_data[k].risk = Score(cmpFetched[i].reading)
            /\ k = Cardinality({m \in ok : m <= i})
       /\ Len(r.partial_failure) = Cardinality(bad)
       /\ \A i \in bad : \E k \in 1..Len(r.partial_failure) :
            /\ r.partial_failure[k] = cmpNames[i]
            /\ k = Cardinality({m \in bad : m <= i})

\* C12 witness: compare(<<"A", "B">>) where the fetch of B failed has
\* settled with A scored and cities_analyzed = 1.
C12_Witness ==
  /\ cmpNames = <<"A", "B">>
  /\ cmpFetched[1].state = "ok"
  /\ cmpFetched[2].state = "failed"
  /\ cmpResult # <<>>
  /\ cmpResult[1].cities_analyzed = 1
  /\ cmpResult[1].partial_failure = <<"B">>

\* C13: when every location of a compare call failed, the result is a
\* total failure (NoDataAvailable): not a success, no city rows, no
\* highest / lowest / average values.
C13_TotalFailure ==
  cmpResult # <<>> /\ (\A i \in 1..Len(cmpNames) : cmpFetched[i].state = "failed") =>
    LET r == cmpResult[1] IN
    /\ ~r.success
    /\ r.error = "NoDataAvailable"
    /\ r.city_data = <<>>
    /\ r.cities_analyzed = 0
    /\ r.summary = NoSummary

\* C13 witness: a call with two locations, both failed, has settled.
C13_Witness ==
  /\ Len(cmpNames) = 2
  /\ \A i \in 1..2 : cmpFetched[i].state = "failed"
  /\ cmpResult # <<>>
  /\ ~cmpResult[1].success

\* C14: the list recommend returns has all PriorityAlerts first (critical
\* before high), then the StaffingActions, then the InventoryActions, then
\* the OperationalRecommendations; and the panel shows the same actions in
\* that same order.
C14_FixedOrdering ==
  /\ enRecs # <<>> => InRankOrder(enRecs[1])
  /\ enPanel # <<>> => InRankOrder(enPanel[1]) /\ enPanel[1] = enRecs[1]

\* C14 witness: the panel shows a list with a critical alert, a high alert,
\* a staffing action, an inventory action and an operational one.
C14_Witness ==
  /\ enPanel # <<>>
  /\ \A r \in 0..4 : \E i \in 1..Len(enPanel[1]) : ActionRank(enPanel[1][i]) = r

\* The alerts of a list, and the departments of the report that exceed the
\* high-priority threshold, in department order.
AlertDepartments(list) ==
  LET alerts == SelectSeq(list, IsPriorityAlert)
  IN [i \in 1..Len(alerts) |-> alerts[i].department]

ExceedsThreshold(p) == p.surge_percentage > 3000

SurgingDepartments(report) ==
  LET surging == SelectSeq(report.department_predictions, ExceedsThreshold)
  IN [i \in 1..Len(surging) |-> surging[i].name]

BoundaryProbes ==
  {0, 1, 1999, 2000, 2001, 3999, 4000, 4001, 5999, 6000, 6001, 7999, 8000,
   8001, 9999, 10000}

\* C16: the overall score of every assessment is within [0,100] and its
\* risk_level is the level of the one row of the threshold table that
\* contains it; every boundary value (and the values 0.01 next to it) lies
\* in exactly one row, consecutive rows meet, and the rows cover [0,100].
C16_ScoreAndLevel ==
  /\ enReport # <<>> =>
       LET risk == enReport[1].risk IN
       /\ 0 <= risk.overall_risk_score /\ risk.overall_risk_score <= 10000
       /\ \A c \in {"temperature", "aqi", "humidity", "seasonal"} :
            0 <= risk.components[c] /\ risk.components[c] <= 100
       /\ \E i \in 1..Len(ThresholdTable) :
            /\ RowsContaining(risk.overall_risk_score) = {i}
            /\ risk.risk_level = ThresholdTable[i].level
            /\ enReport[1].risk_level = ThresholdTable[i].level
  /\ \A s \in BoundaryProbes : Cardinality(RowsContaining(s)) = 1
  /\ ThresholdTable[1].lo = 0
  /\ ThresholdTable[Len(ThresholdTable)].hi = 10001
  /\ \A i \in 1..(Len(ThresholdTable) - 1) :
       ThresholdTable[i].hi = ThresholdTable[i + 1].lo

\* C16 witness: a reading scored exactly 20.00, the boundary of very_low
\* and low, and given the level low.
C16_Witness ==
  /\ enReport # <<>>
  /\ enReport[1].risk.overall_risk_score = 2000
  /\ enReport[1].risk_level = "low"

\* C17: every department of a report has predicted_patients >=
\* base_patients and a multiplier >= 1.00, and surge_percentage 0 when
\* base_patients is 0.
C17_NeverBelowBase ==
  enReport # <<>> =>
    \A i \in 1..Len(enReport[1].department_predictions) :
      LET p == enReport[1].department_predictions[i] IN
      /\ p.predicted_patients >= p.base_patients
      /\ p.multiplier >= 100
      /\ p.base_patients = 0 => p.surge_percentage = 0

\* C17 witness: a report under a low-risk reading (weighted score below
\* 50.00, so the floor applies) with a department of base_patients 0.
C17_Witness ==
  /\ enReport # <<>>
  /\ enReport[1].risk.overall_risk_score < 2000
  /\ \E i \in 1..Len(enReport[1].department_predictions) :
       enReport[1].department_predictions[i].base_patients = 0
  /\ \E i \in 1..Len(enReport[1].department_predictions) :
       LET p == enReport[1].department_predictions[i] IN
       p.base_patients > 0 /\ p.predicted_patients = p.base_patients

\* C18: total_predicted_patients of a report is the sum of
\* predicted_patients over its departments.
C18_TotalIsSum ==
  enReport # <<>> =>
    LET p == enReport[1].department_predictions IN
    /\ Len(p) = 3
    /\ enReport[1].total_predicted_patients
         = p[1].predicted_patients + p[2].predicted_patients
             + p[3].predicted_patients

\* C18 witness: a report in which some department is predicted above its
\* baseline, so that the total differs from the baseline volume.
C18_Witness ==
  /\ enReport # <<>>
  /\ \E i \in 1..Len(enReport[1].department_predictions) :
       LET p == enReport[1].department_predictions[i] IN
       p.predicted_patients > p.base_patients
  /\ enReport[1].total_predicted_patients > 0

\* C21: when a generation request of the mounted instance settles, either
\* it succeeded (the entry and the displayed plan are the new plan, stamped
\* now) or the entry and the displayed plan are unchanged and an error
\* message is set; in both cases loading is false afterwards. The entry is
\* written by no step other than a settling request.
C21_CacheWrittenOnSuccessOnly ==
  [][/\ \A r \in aiInflight \ aiInflight' :
          aiMounted /\ r.inst = aiInst =>
            /\ ~aiLoading'
            /\ \/ /\ cache' = [present |-> TRUE, parsable |-> TRUE,
                               plan |-> r.id, timestamp |-> now]
                  /\ aiPlan' = r.id
                  /\ aiLastGenerated' = now
                  /\ aiError' = aiError
               \/ /\ cache' = cache
                  /\ aiPlan' = aiPlan
                  /\ aiLastGenerated' = aiLastGenerated
                  /\ aiError' # ""
     /\ cache'.present /\ cache' # cache => aiInflight \ aiInflight' # {}]_vars

\* C21 witness: a plan is displayed and cached, a regeneration of the
\* mounted instance has failed: the error is set, loading is false, the
\* entry and the plan are still there.
C21_Witness ==
  /\ aiMounted
  /\ aiPlan # 0
  /\ cache.present
  /\ cache.plan = aiPlan
  /\ aiError # ""
  /\ ~aiLoading
  /\ aiInflight = {}
  /\ aiReqCount >= 2

\* The requests issued by a step, by kind.
NewRequests(kind) ==
  {r \in agInflight' : r.kind = kind /\ \A q \in agInflight : q.id # r.id}

\* C22 (as claimed): a step that leaves the panel paused (auto mode off)
\* issues no checkAgent request.
C22_NoCheckWhilePaused ==
  [][agMounted' /\ ~autoMode' => NewRequests("check") = {}]_vars

\* The outstanding runAnalysis requests, and those of the mounted instance.
RunsOutstanding == {r \in agInflight : r.kind = "run"}
OwnRunsOutstanding == {r \in RunsOutstanding : agMounted /\ r.inst = agInst}

C28_UpdateOnSuccessOnly ==
  [][/\ agMounted /\ agMounted' /\ <<analysis, lastCheck>>' # <<analysis, lastCheck>> =>
          /\ agDone' = agDone + 1
          /\ agLast'.outcome = "ok"
          /\ agLast'.live
     /\ agDone' = agDone + 1 /\ agLast'.kind = "run" /\ agLast'.live
          /\ agLast'.outcome # "ok" =>
          /\ error' # ""
          /\ analysis' = analysis
          /\ lastCheck' = lastCheck
     /\ NewRequests("run") # {} => error' = "" /\ loading']_vars

\* C28 witness: an analysis is stored and shown, a manual run was
\* unsuccessful and its error text is shown next to it.
C28_Witness ==
  /\ agMounted
  /\ agLast = [kind |-> "run", outcome |-> "unsuccessful", live |-> TRUE]
  /\ analysis # 0
  /\ lastCheck # 0
  /\ error = "Failed to run analysis"

\* Search results are on display: the block under hasSearched && !isLoading
\* with facilities that came from a request.
ResultsDisplayed ==
  hfMounted /\ hfHasSearched /\ ~hfIsLoading /\ hfFacilities.req # 0

\* C25 (as claimed): whenever results are displayed, the radius shown is
\* the radius of the request that produced the facilities, and so is the
\* radius stored in the cache entry.
C25_RadiusOfDisplayedResults ==
  /\ ResultsDisplayed => hfRadiusKm = hfFacilities.req
  /\ hfCache.present => hfCache.radiusKm = hfCache.facilities.req

\* A task with the given id is suspended at pc after the step.
At(id, pc) == \E t2 \in hfTasks' : t2.id = id /\ t2.pc = pc

\* C26: the 5 km request is issued exactly when the 2.5 km response is a
\* body that reports success with no facilities (for the position and for
\* the fallback location alike); and when the 5 km request settles without
\* throwing, the facilities kept are those of the 5 km response if it is a
\* body that reports success, and those of the 2.5 km response otherwise.
C26_RadiusEscalation ==
  [][\A t \in hfTasks :
       /\ \A resp \in Responses(Radius25) :
            LET empty == /\ resp.kind = "json"
                         /\ resp.body.success
                         /\ resp.body.n = 0
            IN /\ HFFirstSettle(t, resp) => (At(t.id, "try5") <=> empty)
               /\ HFFallbackSettle(t, resp) => (At(t.id, "fb5") <=> empty)
       /\ \A resp \in Responses(Radius50) :
            LET kept == IF resp.kind = "json" /\ resp.body.success
                          THEN [n |-> resp.body.n, req |-> Radius50]
                          ELSE [n |-> 0, req |-> Radius25]
            IN resp.kind # "throw"
                 /\ (HFWiderSettle(t, resp) \/ HFFallbackWiderSettle(t, resp)) =>
                 /\ hfCache'.present
                 /\ hfCache'.facilities = kept
                 /\ t.live => hfFacilities' = kept
                 /\ t.live /\ kept.req = Radius50 => hfRadiusKm' = Radius50
                 /\ t.live /\ kept.req = Radius25 => hfRadiusKm' = hfRadiusKm]_vars

\* C26 witness: a search found nothing within 2.5 km, asked for 5 km, and
\* shows the facilities of the 5 km response.
C26_Witness ==
  /\ ResultsDisplayed
  /\ hfTasks = {}
  /\ hfUserLocation = "user"
  /\ hfFacilities = [n |-> 2, req |-> Radius50]
  /\ hfRadiusKm = Radius50

\* C27 (as claimed): a search is at the fallback requests only when it never
\* obtained the position (it issued no request for it).
C27_FallbackOnlyWithoutPosition ==
  \A t \in hfTasks : t.pc \in {"fb25", "fb5"} => t.reqsUser = 0

\* C24: whenever the comparison is displayed (not loading, no error), it is
\* the response to a request made for the selected cities; and at most one
\* comparison request is in flight.
C24_DataForSelectedCities ==
  /\ mcMounted /\ MCView = "data" => multiCityData.cities = selectedCities
  /\ Cardinality(mcInflight) <= 1

\* C24 witness: the selection was changed to Western India, that request
\* failed, Try Again succeeded: the comparison of the third request is
\* displayed, for Western India.
C24_Witness ==
  /\ mcMounted
  /\ MCView = "data"
  /\ selectedCities = "Western"
  /\ multiCityData = [cities |-> "Western", id |-> 3]

====
